---- MODULE Spec2Model ----
(***************************************************************************)
(* The Orders page (src/src/pages/Orders.tsx): the auth gate, the borrowed *)
(* and the lent loader, the action-completion handler and the order card.  *)
(*                                                                         *)
(* The page state is the React state `user`, the two react-query results   *)
(* (data and the position of the running queryFn) and the route.  The      *)
(* backend tables are the environment: their rows are fixed, their status  *)
(* column changes through the OrderActions / PaymentButton collaborators.  *)
(***************************************************************************)
EXTENDS Integers, Sequences, FiniteSets, TLC

VARIABLES
  session,    \* what supabase.auth.getUser() answers: NoUser or a user id
  authPc,     \* position of checkAuth: "mount", "getUser" (awaiting), "done"
  user,       \* useState `user` (its id), NoUser while unset
  route,      \* current route: "/orders" or "/auth"
  db,         \* backend: status column of every row of orders / service_orders
  query,      \* per view: the queryFn execution (phase, the two sub-query results, outcome)
  data,       \* per view: react-query `data` (loaded = FALSE is undefined)
  issued,     \* history: the backend selects issued so far
  lastStep,   \* history: the collaborator action that just completed, else "other"
  called,     \* history: the page callbacks and refetches the last step invoked
  fresh,      \* history: per view, whether data / the running fetch began after the last backend change
  tabs,       \* per view: what the tab's content renders (the grid, or the empty-state card)
  card,       \* the (order, viewType, variant) handed to an OrderCard on its own
  rendered    \* what that OrderCard mounted

vars == <<session, authPc, user, route, db, query, data, issued, lastStep, called, fresh,
          tabs, card, rendered>>

pageVars == <<session, authPc, user, route, db, query, data, issued, lastStep, called, fresh,
              tabs>>
cardVars == <<card, rendered>>

----------------------------------------------------------------------------
(* Values *)

NoUser == "none"
Users == {"u1", "u2"}
Views == {"borrowed", "lent"}
Subs == {"items", "services"}
Null == [null |-> TRUE]
Undefined == [undefined |-> TRUE]

(* The six statuses of the status enum, and strings outside it. *)
Statuses == {"pending", "accepted", "paid", "active", "completed", "cancelled"}
UnknownStatuses == {"refunded", ""}

(* Object spread: { ...o, k1: v1, ... } -- the later keys win. *)
Spread(o, extra) ==
  [k \in (DOMAIN o) \cup (DOMAIN extra) |-> IF k \in DOMAIN extra THEN extra[k] ELSE o[k]]

(* o.k on an object that may lack the key. *)
Get(o, k) == IF k \in DOMAIN o THEN o[k] ELSE Undefined

(* A string and an array as values that can stand where null can. *)
Str(s) == [str |-> s]
Arr(a) == [arr |-> a]

(* What reading a property of null or undefined raises. *)
TypeError == [error |-> "TypeError"]

Nullish(v) == v \in {Null, Undefined}

(* v || d : null, undefined and '' are falsy. *)
Truthy(v) == v \notin {Null, Undefined, Str("")}
Or(v, d) == IF Truthy(v) THEN v ELSE d

(* obj.k : raises on null and undefined. *)
Field(obj, k) == IF Nullish(obj) THEN TypeError ELSE Get(obj, k)

(* obj?.k : undefined on null and undefined. *)
OptField(obj, k) == IF Nullish(obj) THEN Undefined ELSE Get(obj, k)

(* arr?.[0] : undefined on null, undefined and the empty array. *)
OptFirst(a) ==
  IF Nullish(a) THEN Undefined
  ELSE IF Len(a.arr) = 0 THEN Undefined ELSE a.arr[1]

----------------------------------------------------------------------------
(* The backend (environment): rows of the two tables.  owner_id is         *)
(* seller_id in orders and provider_id in service_orders.  rawType is a    *)
(* column named type that `select *` would return ("" when the row has     *)
(* none).  Ids are per table, so an order and a service order share ids.   *)

(* Further service orders the user hired from themselves, all active. *)
ExtraOrders == 1

ExtraRows ==
  { [table |-> "service_orders", id |-> 2 + k, buyer_id |-> "u1", owner_id |-> "u1",
     created_at |-> 6 + k, rawType |-> "", title |-> "Cleaning"] : k \in 1..ExtraOrders }

CoreRows ==
  { [table |-> "orders", id |-> 1, buyer_id |-> "u1", owner_id |-> "u1",
     created_at |-> 5, rawType |-> "", title |-> "Drill"],
    [table |-> "orders", id |-> 2, buyer_id |-> "u1", owner_id |-> "u2",
     created_at |-> 3, rawType |-> "rental", title |-> "Tent"],
    [table |-> "orders", id |-> 3, buyer_id |-> "u2", owner_id |-> "u2",
     created_at |-> 4, rawType |-> "", title |-> "Bike"],
    [table |-> "service_orders", id |-> 1, buyer_id |-> "u2", owner_id |-> "u1",
     created_at |-> 6, rawType |-> "item", title |-> "Tutoring"],
    [table |-> "service_orders", id |-> 2, buyer_id |-> "u1", owner_id |-> "u2",
     created_at |-> 2, rawType |-> "", title |-> "Moving"] }

Rows == CoreRows \cup ExtraRows

RowKey(r) == <<r.table, r.id>>
RowKeys == { RowKey(r) : r \in Rows }

InitialStatus(r) ==
  IF r.table = "orders" /\ r.id = 1 THEN "pending"
  ELSE IF r.table = "service_orders" /\ r.id = 1 THEN "pending"
  ELSE IF r.table = "orders" /\ r.id = 2 THEN "paid"
  ELSE IF r \in ExtraRows THEN "active"
  ELSE "completed"

ProfileOf(u) == [name |-> Str(u), avatar_url |-> Null]

----------------------------------------------------------------------------
(* The four selects of the two loaders. *)

(* The select a loader issues for one sub-query: table, filter column,    *)
(* the key the joined listing is returned under and the key and side of   *)
(* the joined profile.                                                    *)
QuerySpec(view, sub) ==
  IF view = "borrowed"
  THEN IF sub = "items"
       THEN [table |-> "orders", column |-> "buyer_id",
             listingKey |-> "listings", profileKey |-> "seller", profileSide |-> "owner"]
       ELSE [table |-> "service_orders", column |-> "buyer_id",
             listingKey |-> "services", profileKey |-> "provider", profileSide |-> "owner"]
  ELSE IF sub = "items"
       THEN [table |-> "orders", column |-> "seller_id",
             listingKey |-> "listings", profileKey |-> "buyer", profileSide |-> "buyer"]
       ELSE [table |-> "service_orders", column |-> "provider_id",
             listingKey |-> "services", profileKey |-> "buyer", profileSide |-> "buyer"]

(* The request as the backend sees it: .from(table).eq(column, value). *)
Request(view, sub, uid) ==
  [table |-> QuerySpec(view, sub).table, column |-> QuerySpec(view, sub).column, value |-> uid]

(* Column value of a stored row under its column name in the table. *)
ColumnOf(r, column) == IF column = "buyer_id" THEN r.buyer_id ELSE r.owner_id

OwnerColumn(table) == IF table = "orders" THEN "seller_id" ELSE "provider_id"

(* One returned record: the row's columns (`*`), the joined listing and   *)
(* the joined profile.  srcTable is not a column: it records which table  *)
(* the record was read from.                                              *)
RawRecord(r, st, spec) ==
  LET base == ("id" :> r.id) @@ ("buyer_id" :> r.buyer_id)
                @@ (OwnerColumn(r.table) :> r.owner_id)
                @@ ("status" :> st) @@ ("created_at" :> r.created_at)
                @@ ("srcTable" :> r.table)
      typed == IF r.rawType = "" THEN base ELSE base @@ ("type" :> r.rawType)
      profile == IF spec.profileSide = "buyer" THEN ProfileOf(r.buyer_id)
                 ELSE ProfileOf(r.owner_id)
  IN  typed @@ (spec.listingKey :> [title |-> Str(r.title), images |-> Arr(<<>>),
                                     type |-> IF r.table = "orders" THEN "item" ELSE "service"])
            @@ (spec.profileKey :> profile)

(* .order('created_at', { ascending: false }) over a set of stored rows. *)
RECURSIVE ByCreatedDesc(_)
ByCreatedDesc(S) ==
  IF S = {} THEN <<>>
  ELSE LET newest == CHOOSE r \in S : \A x \in S : x.created_at <= r.created_at
       IN  <<newest>> \o ByCreatedDesc(S \ {newest})

(* The data a select answers with, given the backend's statuses. *)
Select(statuses, view, sub, uid) ==
  LET spec == QuerySpec(view, sub)
      hit == { r \in Rows : r.table = spec.table /\ ColumnOf(r, spec.column) = uid }
      sorted == ByCreatedDesc(hit)
  IN  [i \in 1..Len(sorted) |-> RawRecord(sorted[i], statuses[RowKey(sorted[i])], spec)]

(* Sub-query results.  pending: not settled; ok: { data, error: null };    *)
(* error: { data: null, error }; rejected: the promise rejected.           *)
Pending == [kind |-> "pending", data |-> <<>>]
NotRun == [kind |-> "none", data |-> <<>>]
Ok(rows) == [kind |-> "ok", data |-> rows]
ErrorRes == [kind |-> "error", data |-> <<>>]
Rejected == [kind |-> "rejected", data |-> <<>>]
Failed(res) == res.kind \in {"error", "rejected"}

(* Variant of TagRecord with the spread after the tag: { type, ...o }. *)
TagRecordRawWins(o, tag, listingKey, profileKey) ==
  Spread(("type" :> tag) @@ ("listing" :> Get(o, listingKey))
         @@ ("otherUser" :> Get(o, profileKey)), o)

(* items.map(o => ({ ...o, type, listing, otherUser })) for one record. *)
TagRecord(o, tag, listingKey, profileKey) ==
  Spread(o, ("type" :> tag) @@ ("listing" :> Get(o, listingKey))
            @@ ("otherUser" :> Get(o, profileKey)))

MapTag(rows, tag, listingKey, profileKey) ==
  [i \in 1..Len(rows) |-> TagRecord(rows[i], tag, listingKey, profileKey)]

(* Variant of OtherUserKey that reads o.seller in every map. *)
OtherUserKeySellerOnly(view, tag) == "seller"

(* The key each map reads the counterparty from (o.seller, o.provider,   *)
(* o.buyer) and the key it reads the listing from (o.listings,           *)
(* o.services).                                                          *)
OtherUserKey(view, tag) ==
  IF view = "borrowed" THEN (IF tag = "item" THEN "seller" ELSE "provider") ELSE "buyer"

ListingKey(tag) == IF tag = "item" THEN "listings" ELSE "services"

(* Variant of MergeOrders whose second map copies the first map's tag. *)
MergeOrdersOneTag(view, itemsData, servicesData) ==
  MapTag(itemsData, "item", ListingKey("item"), OtherUserKey(view, "item"))
  \o MapTag(servicesData, "item", ListingKey("service"), OtherUserKey(view, "service"))

(* A sequence of records re-sorted by created_at, newest first. *)
RECURSIVE NewestFirst(_)
NewestFirst(seq) ==
  IF Len(seq) = 0 THEN <<>>
  ELSE LET top == CHOOSE i \in 1..Len(seq) :
                    \A j \in 1..Len(seq) : seq[j].created_at <= seq[i].created_at
       IN  <<seq[top]>> \o NewestFirst(SubSeq(seq, 1, top - 1) \o SubSeq(seq, top + 1, Len(seq)))

(* Variant of MergeOrders that re-sorts the merged list by creation time. *)
MergeOrdersResorted(view, itemsData, servicesData) ==
  NewestFirst(MapTag(itemsData, "item", ListingKey("item"), OtherUserKey(view, "item"))
              \o MapTag(servicesData, "service", ListingKey("service"),
                        OtherUserKey(view, "service")))

(* [...items, ...services] of a successful execution. *)
MergeOrders(view, itemsData, servicesData) ==
  MapTag(itemsData, "item", ListingKey("item"), OtherUserKey(view, "item"))
  \o MapTag(servicesData, "service", ListingKey("service"), OtherUserKey(view, "service"))

(* Variant of LoaderResult without the try/catch and with a partial merge. *)
LoaderResultNoCatch(view, itemsRes, servicesRes) ==
  IF itemsRes.kind = "rejected" \/ servicesRes.kind = "rejected"
  THEN [outcome |-> "rejected", value |-> <<>>]
  ELSE [outcome |-> "resolved",
        value |-> MergeOrders(view, itemsRes.data, servicesRes.data)]

(* What queryFn resolves to once Promise.all has settled: the body of the *)
(* try block after the await, and the catch.                              *)
LoaderResult(view, itemsRes, servicesRes) ==
  IF Failed(itemsRes) \/ Failed(servicesRes)
  THEN [outcome |-> "resolved", value |-> <<>>]
  ELSE [outcome |-> "resolved",
        value |-> MergeOrders(view, itemsRes.data, servicesRes.data)]

(* Promise.all has settled: both fulfilled, or one rejected. *)
AllSettled(itemsRes, servicesRes) ==
  \/ itemsRes.kind = "rejected"
  \/ servicesRes.kind = "rejected"
  \/ (itemsRes.kind \in {"ok", "error"} /\ servicesRes.kind \in {"ok", "error"})

----------------------------------------------------------------------------
(* Rendering: the order card and the status badge. *)

(* Variant of getStatusColor whose default branch differs from 'pending'. *)
getStatusColorOutlineDefault(status) ==
  CASE status = "pending" -> "default"
    [] status = "accepted" -> "secondary"
    [] status = "paid" -> "default"
    [] status = "active" -> "default"
    [] status = "completed" -> "outline"
    [] status = "cancelled" -> "destructive"
    [] OTHER -> "outline"

getStatusColor(status) ==
  CASE status = "pending" -> "default"
    [] status = "accepted" -> "secondary"
    [] status = "paid" -> "default"
    [] status = "active" -> "default"
    [] status = "completed" -> "outline"
    [] status = "cancelled" -> "destructive"
    [] OTHER -> "default"

(* The cases each switch lists. *)
ListedCases == {"pending", "accepted", "paid", "active", "completed", "cancelled"}

isOwner(viewType) == viewType = "lent"

(* Variant of canAcceptDeny that forgets the view. *)
canAcceptDenyAnyView(order, viewType) == order.status = "pending"

canAcceptDeny(order, viewType) == isOwner(viewType) /\ order.status = "pending"

(* Variant of canPay that forgets the view. *)
canPayAnyView(order, viewType) == order.status = "accepted"

canPay(order, viewType) == ~isOwner(viewType) /\ order.status = "accepted"

canChat(order) == order.status \in {"accepted", "paid", "active", "completed"}

(* The callback prop each control is mounted with ("" when none). *)
OnActionComplete(control) == IF control = "OrderActions" THEN "handleOrderUpdate" ELSE ""

(* Variant of CardTitle that reads the listing without the ?. guard. *)
CardTitleStrict(order) == Or(Field(order.listing, "title"), Str("Untitled"))

(* order.listing?.title || 'Untitled' *)
CardTitle(order) == Or(OptField(order.listing, "title"), Str("Untitled"))

(* `From: ${order.otherUser?.name || 'Unknown'}` or `To: ...` *)
CardParty(order, viewType) ==
  [prefix |-> IF viewType = "borrowed" THEN "From: " ELSE "To: ",
   name |-> Or(OptField(order.otherUser, "name"), Str("Unknown"))]

(* order.listing?.images?.[0] && <img src={order.listing.images[0]}      *)
(* alt={order.listing.title} />: the img elements rendered.              *)
CardImages(order) ==
  IF Truthy(OptFirst(OptField(order.listing, "images")))
  THEN { [src |-> Field(order.listing, "images").arr[1], alt |-> Field(order.listing, "title")] }
  ELSE {}

(* What OrderCard renders for an order: the title, the counterparty     *)
(* line, the badge, the image and the controls; threw when a property   *)
(* read raised.                                                          *)
OrderCard(order, viewType) ==
  [controls |-> (IF canAcceptDeny(order, viewType) THEN {"OrderActions"} ELSE {})
                \cup (IF canPay(order, viewType) THEN {"PaymentButton"} ELSE {})
                \cup (IF canChat(order) THEN {"Message"} ELSE {}),
   badge |-> getStatusColor(order.status),
   title |-> CardTitle(order),
   party |-> CardParty(order, viewType),
   images |-> CardImages(order),
   threw |-> \/ CardTitle(order) = TypeError
             \/ CardParty(order, viewType).name = TypeError
             \/ \E img \in CardImages(order) : img.src = TypeError \/ img.alt = TypeError]

(* The second getStatusColor of the file. *)
getStatusColorSecond(status) ==
  CASE status = "pending" -> "default"
    [] status = "accepted" -> "secondary"
    [] status = "completed" -> "outline"
    [] status = "cancelled" -> "destructive"
    [] OTHER -> "default"

ListedCasesSecond == {"pending", "accepted", "completed", "cancelled"}

(* The second OrderCard of the file: a details link, and a message link  *)
(* for accepted orders.                                                  *)
OrderCardSecond(order, viewType) ==
  [controls |-> {"ViewDetails"} \cup (IF order.status = "accepted" THEN {"Message"} ELSE {}),
   badge |-> getStatusColorSecond(order.status),
   title |-> Or(OptField(Get(order, "listings"), "title"),
                Or(OptField(Get(order, "services"), "title"), Str("Untitled"))),
   party |-> [prefix |-> IF viewType = "borrowed"
                         THEN (IF order.type = "service" THEN "Hired from" ELSE "Borrowed from")
                         ELSE (IF order.type = "service" THEN "Service for" ELSE "Lent to"),
              name |-> Or(OptField(Get(order, "profiles"), "name"), Str("Unknown"))],
   images |-> {},
   threw |-> FALSE]

----------------------------------------------------------------------------
(* The page. *)

(* Variant of checkAuth with the session test inverted. *)
checkAuthInverted(sessionUser) ==
  IF sessionUser # NoUser
  THEN [route |-> "/auth", user |-> NoUser]
  ELSE [route |-> "/orders", user |-> sessionUser]

(* checkAuth after its await: the route and the stored user. *)
checkAuth(sessionUser) ==
  IF sessionUser = NoUser
  THEN [route |-> "/auth", user |-> NoUser]
  ELSE [route |-> "/orders", user |-> sessionUser]

(* enabled: !!user?.id *)
Enabled(uid) == uid # NoUser

Idle == [phase |-> "idle", items |-> NotRun, services |-> NotRun, outcome |-> "none"]
Fetching == [phase |-> "fetching", items |-> Pending, services |-> Pending, outcome |-> "none"]
NoData == [loaded |-> FALSE, rows |-> <<>>]
Data(rows) == [loaded |-> TRUE, rows |-> rows]

(* Variant of QueryFnStart that drops the held list when it starts. *)
QueryFnStartClears(view, uid, held) ==
  IF uid = NoUser
  THEN [query |-> [Idle EXCEPT !.outcome = "resolved"], data |-> Data(<<>>), requests |-> {}]
  ELSE [query |-> Fetching, data |-> NoData,
        requests |-> { Request(view, sub, uid) : sub \in Subs }]

(* queryFn up to its await: the early return without a user, else both   *)
(* selects are issued.  Gives the execution, the data and the requests.  *)
QueryFnStart(view, uid, held) ==
  IF uid = NoUser
  THEN [query |-> [Idle EXCEPT !.outcome = "resolved"], data |-> Data(<<>>), requests |-> {}]
  ELSE [query |-> Fetching, data |-> held,
        requests |-> { Request(view, sub, uid) : sub \in Subs }]

(* Variant of handleOrderUpdate that refetches the borrowed list only. *)
handleOrderUpdateBorrowedOnly == {"refetchBorrowed"}

(* The calls handleOrderUpdate makes. *)
handleOrderUpdate == {"refetchBorrowed", "refetchLent"}

(* The loader each refetch function belongs to. *)
RefetchOf(view) == IF view = "borrowed" THEN "refetchBorrowed" ELSE "refetchLent"

(* The calls a completion callback makes. *)
CallsOf(callback) == IF callback = "handleOrderUpdate" THEN handleOrderUpdate ELSE {}

(* The collaborators' write: the status of the row (orderType, orderId). *)
TableOf(orderType) == IF orderType = "item" THEN "orders" ELSE "service_orders"

Mutate(statuses, orderType, orderId, newStatus) ==
  IF <<TableOf(orderType), orderId>> \in DOMAIN statuses
  THEN [statuses EXCEPT ![<<TableOf(orderType), orderId>>] = newStatus]
  ELSE statuses

(* Variant of TabContent that tests the list instead of its length. *)
TabContentTruthy(d) ==
  IF d.loaded THEN {"grid"} ELSE {"emptyCard", "ctaLink"}

(* orders?.length ? <grid of cards> : <empty-state card with its link> *)
TabContent(d) ==
  IF d.loaded /\ Len(d.rows) # 0 THEN {"grid"} ELSE {"emptyCard", "ctaLink"}

(* The render of both tabs from the two results. *)
RenderTabs(results) == [v \in Views |-> TabContent(results[v])]

NotRendered ==
  [done |-> FALSE, controls |-> {}, badge |-> "", title |-> Undefined,
   party |-> [prefix |-> "", name |-> Undefined], images |-> {}, threw |-> FALSE]

Init ==
  /\ session \in {NoUser} \cup Users
  /\ authPc = "mount"
  /\ user = NoUser
  /\ route = "/orders"
  /\ db = [k \in RowKeys |-> InitialStatus(CHOOSE r \in Rows : RowKey(r) = k)]
  /\ query = [v \in Views |-> Idle]
  /\ data = [v \in Views |-> NoData]
  /\ issued = {}
  /\ lastStep = "other"
  /\ called = {}
  /\ fresh = [v \in Views |-> [held |-> FALSE, inflight |-> FALSE]]
  /\ tabs = RenderTabs([v \in Views |-> NoData])
  /\ card = [status |-> "pending", type |-> "item", viewType |-> "borrowed", variant |-> "first",
             listing |-> Null, otherUser |-> Null]
  /\ rendered = NotRendered

(* useEffect(() => { checkAuth() }, []): the session request is sent. *)
Mount ==
  /\ authPc = "mount"
  /\ authPc' = "getUser"
  /\ lastStep' = "other"
  /\ called' = {}
  /\ UNCHANGED <<session, user, route, db, query, data, issued, fresh, tabs, cardVars>>

(* checkAuth resumes with the session's answer. *)
CheckAuth ==
  /\ authPc = "getUser"
  /\ authPc' = "done"
  /\ route' = checkAuth(session).route
  /\ user' = checkAuth(session).user
  /\ lastStep' = "other"
  /\ called' = {}
  /\ UNCHANGED <<session, db, query, data, issued, fresh, tabs, cardVars>>

(* Variant of StoreResult with one queryKey for both queries. *)
StoreResultOneKey(results, v, rows) == [w \in Views |-> Data(rows)]

(* react-query stores what queryFn resolved to under the query's own    *)
(* queryKey ('borrowed-orders' or 'lent-orders').                        *)
StoreResult(results, v, rows) == [results EXCEPT ![v] = Data(rows)]

(* An enabled query without data fetches: queryFn runs to its await. *)
StartFetch(v) ==
  /\ route = "/orders"
  /\ Enabled(user)
  /\ ~data[v].loaded
  /\ query[v].phase = "idle"
  /\ query[v].outcome = "none"
  /\ LET st == QueryFnStart(v, user, data[v])
     IN  /\ query' = [query EXCEPT ![v] = st.query]
         /\ data' = [data EXCEPT ![v] = st.data]
         /\ issued' = issued \cup st.requests
  /\ tabs' = RenderTabs(data')
  /\ fresh' = [fresh EXCEPT ![v].inflight = TRUE]
  /\ lastStep' = "other"
  /\ called' = {}
  /\ UNCHANGED <<session, authPc, user, route, db, cardVars>>

(* One select settles; when that settles Promise.all, queryFn runs to    *)
(* its end and react-query stores what it resolved to.                   *)
Settle(v, sub, res) ==
  /\ query[v].phase = "fetching"
  /\ query[v][sub].kind = "pending"
  /\ LET q == [query[v] EXCEPT ![sub] = res]
     IN  IF AllSettled(q.items, q.services)
         THEN LET r == LoaderResult(v, q.items, q.services)
              IN  /\ query' = [query EXCEPT ![v] = [q EXCEPT !.phase = "idle", !.outcome = r.outcome]]
                  /\ data' = IF r.outcome = "resolved" THEN StoreResult(data, v, r.value)
                              ELSE data
                  /\ fresh' = [fresh EXCEPT ![v].held = IF r.outcome = "resolved"
                                                          THEN fresh[v].inflight ELSE @,
                                              ![v].inflight = FALSE]
         ELSE /\ query' = [query EXCEPT ![v] = q]
              /\ UNCHANGED <<data, fresh>>
  /\ tabs' = RenderTabs(data')
  /\ lastStep' = "other"
  /\ called' = {}
  /\ UNCHANGED <<session, authPc, user, route, db, issued, cardVars>>

SettleOk(v, sub) == Settle(v, sub, Ok(Select(db, v, sub, user)))
SettleError(v, sub) == Settle(v, sub, ErrorRes)
SettleReject(v, sub) == Settle(v, sub, Rejected)

(* A mounted control completes its action on the order of a card: the    *)
(* backend row changes and the control's completion callback runs.       *)
Complete(view, i, control, newStatus, step) ==
  /\ route = "/orders"
  /\ data[view].loaded
  /\ i \in DOMAIN data[view].rows
  /\ control \in OrderCard(data[view].rows[i], view).controls
  /\ LET order == data[view].rows[i]
         calls == CallsOf(OnActionComplete(control))
         st == [v \in Views |-> QueryFnStart(v, user, data[v])]
     IN  /\ db' = Mutate(db, order.type, order.id, newStatus)
         /\ query' = [v \in Views |-> IF RefetchOf(v) \in calls THEN st[v].query ELSE query[v]]
         /\ data' = [v \in Views |-> IF RefetchOf(v) \in calls THEN st[v].data ELSE data[v]]
         /\ issued' = issued \cup UNION { st[v].requests : v \in { w \in Views : RefetchOf(w) \in calls } }
         /\ called' = (IF OnActionComplete(control) = "" THEN {} ELSE {OnActionComplete(control)})
                      \cup calls
         /\ fresh' = [v \in Views |-> [held |-> FALSE, inflight |-> RefetchOf(v) \in calls]]
  /\ tabs' = RenderTabs(data')
  /\ lastStep' = step
  /\ UNCHANGED <<session, authPc, user, route, cardVars>>

Accept(i) == Complete("lent", i, "OrderActions", "accepted", "accept")
Deny(i) == Complete("lent", i, "OrderActions", "cancelled", "deny")
Pay(i) == Complete("borrowed", i, "PaymentButton", "paid", "pay")

MaxCards == Cardinality(Rows)

Next ==
  \/ Mount
  \/ CheckAuth
  \/ \E v \in Views : StartFetch(v)
  \/ \E v \in Views, sub \in Subs : SettleOk(v, sub)
  \/ \E v \in Views, sub \in Subs : SettleError(v, sub)
  \/ \E v \in Views, sub \in Subs : SettleReject(v, sub)
  \/ \E i \in 1..MaxCards : Accept(i)
  \/ \E i \in 1..MaxCards : Deny(i)
  \/ \E i \in 1..MaxCards : Pay(i)

Spec == Init /\ [][Next]_vars

----------------------------------------------------------------------------
(* The order card on its own: every status, both views, both OrderCard   *)
(* definitions of the file.                                              *)

(* The joined listing and counterparty an order can carry: null, or an  *)
(* object whose title, images and name may be null or empty.            *)
Listings ==
  {Null} \cup [title : {Null, Str(""), Str("Drill")},
               images : {Null, Arr(<<>>), Arr(<<Str("a.png")>>)}]
Counterparties == {Null} \cup [name : {Null, Str("Ann")}]

CardInputs ==
  [status : Statuses \cup UnknownStatuses, type : {"item", "service"},
   viewType : Views, variant : {"first", "second"},
   listing : Listings, otherUser : Counterparties]

InitCard ==
  /\ session = NoUser
  /\ authPc = "mount"
  /\ user = NoUser
  /\ route = "/orders"
  /\ db = [k \in RowKeys |-> InitialStatus(CHOOSE r \in Rows : RowKey(r) = k)]
  /\ query = [v \in Views |-> Idle]
  /\ data = [v \in Views |-> NoData]
  /\ issued = {}
  /\ lastStep = "other"
  /\ called = {}
  /\ fresh = [v \in Views |-> [held |-> FALSE, inflight |-> FALSE]]
  /\ tabs = RenderTabs([v \in Views |-> NoData])
  /\ card \in CardInputs
  /\ rendered = NotRendered

RenderFirst ==
  /\ ~rendered.done
  /\ card.variant = "first"
  /\ LET out == OrderCard([id |-> 1, status |-> card.status, type |-> card.type,
                            listing |-> card.listing, otherUser |-> card.otherUser],
                           card.viewType)
     IN  rendered' = [done |-> TRUE, controls |-> out.controls, badge |-> out.badge,
                      title |-> out.title, party |-> out.party, images |-> out.images,
                      threw |-> out.threw]
  /\ UNCHANGED <<pageVars, card>>

RenderSecond ==
  /\ ~rendered.done
  /\ card.variant = "second"
  /\ LET out == OrderCardSecond(
                  ("id" :> 1) @@ ("status" :> card.status) @@ ("type" :> card.type)
                  @@ (ListingKey(card.type) :> card.listing) @@ ("profiles" :> card.otherUser),
                  card.viewType)
     IN  rendered' = [done |-> TRUE, controls |-> out.controls, badge |-> out.badge,
                      title |-> out.title, party |-> out.party, images |-> out.images,
                      threw |-> out.threw]
  /\ UNCHANGED <<pageVars, card>>

NextCard == RenderFirst \/ RenderSecond

SpecCard == InitCard /\ [][NextCard]_vars

----------------------------------------------------------------------------
(* Properties *)

Records(v) == { data[v].rows[i] : i \in DOMAIN data[v].rows }
InitialDb == [k \in RowKeys |-> InitialStatus(CHOOSE r \in Rows : RowKey(r) = k)]

(* C1: a loader execution in which the item or the service sub-query     *)
(* failed (error result or rejection) has resolved to the empty          *)
(* sequence, whatever the other sub-query returned, and no execution     *)
(* rejects.                                                              *)
C1_FailureGivesEmpty ==
  \A v \in Views :
    /\ query[v].outcome # "rejected"
    /\ (query[v].phase = "idle" /\ (Failed(query[v].items) \/ Failed(query[v].services)))
         => (query[v].outcome = "resolved" /\ data[v] = Data(<<>>))

(* C1 witness: an execution ended with one sub-query failed while the    *)
(* other had answered with records.                                      *)
C1_Witness ==
  \E v \in Views :
    /\ query[v].phase = "idle"
    /\ query[v].services.kind = "error"
    /\ query[v].items.kind = "ok"
    /\ Len(query[v].items.data) > 0

(* C2: every record of a loader's result is tagged 'item' or 'service',  *)
(* 'item' exactly when it was read from orders and 'service' exactly     *)
(* when it was read from service_orders, whatever type column the row    *)
(* carried.                                                              *)
C2_TypeTag ==
  \A v \in Views : \A o \in Records(v) :
    /\ o.type \in {"item", "service"}
    /\ (o.type = "item") <=> (o.srcTable = "orders")
    /\ (o.type = "service") <=> (o.srcTable = "service_orders")

(* C2 witness: the lent list holds the service order whose row has a     *)
(* type column saying 'item'.                                            *)
C2_Witness ==
  \E o \in Records("lent") : o.srcTable = "service_orders" /\ o.id = 1 /\ o.type = "service"

(* C3: the first OrderCard mounts OrderActions exactly for a pending     *)
(* order in the lent view.                                               *)
C3_AcceptDenyOnlyLentPending ==
  (rendered.done /\ card.variant = "first")
    => (("OrderActions" \in rendered.controls)
          <=> (card.viewType = "lent" /\ card.status = "pending"))

(* C3 witness: a card rendered with OrderActions mounted. *)
C3_Witness ==
  rendered.done /\ card.variant = "first" /\ "OrderActions" \in rendered.controls

(* C4: the first OrderCard mounts PaymentButton exactly for an accepted  *)
(* order in the borrowed view.                                           *)
C4_PayOnlyBorrowedAccepted ==
  (rendered.done /\ card.variant = "first")
    => (("PaymentButton" \in rendered.controls)
          <=> (card.viewType = "borrowed" /\ card.status = "accepted"))

(* C4 witness: a card rendered with PaymentButton mounted. *)
C4_Witness ==
  rendered.done /\ card.variant = "first" /\ "PaymentButton" \in rendered.controls

(* C5: every OrderCard of the file offers the messaging control exactly  *)
(* for the statuses accepted, paid, active and completed, in both views. *)
C5_MessageForFourStatuses ==
  rendered.done
    => (("Message" \in rendered.controls)
          <=> (card.status \in {"accepted", "paid", "active", "completed"}))

(* C6: a step that invokes handleOrderUpdate calls both refetch          *)
(* functions, and both loaders are fetching again after it.              *)
C6_UpdateRefetchesBoth ==
  ("handleOrderUpdate" \in called)
    => /\ {"refetchBorrowed", "refetchLent"} \subseteq called
       /\ \A v \in Views : query[v] = Fetching

(* C6 witness: handleOrderUpdate has just been invoked. *)
C6_Witness == "handleOrderUpdate" \in called /\ lastStep \in {"accept", "deny"}

(* C7: after an accept, a deny or a payment started from a card          *)
(* completes, both loaders are re-executed.                              *)
C7_EveryActionRefetchesBoth ==
  (lastStep \in {"accept", "deny", "pay"})
    => \A v \in Views : RefetchOf(v) \in called /\ query[v] = Fetching

(* C8: without a session user the page goes to the authentication route, *)
(* keeps user unset and never issues a select; with one it never goes    *)
(* there, and every select issued filters by the stored user's id.       *)
C8_AuthGate ==
  /\ (authPc = "done" /\ session = NoUser) => route = "/auth"
  /\ (session = NoUser) => (user = NoUser /\ issued = {})
  /\ (route = "/auth") => (user = NoUser /\ issued = {})
  /\ (session # NoUser) => route = "/orders"
  /\ (issued # {}) => (user # NoUser /\ user = session /\ \A r \in issued : r.value = user)

(* C8 witness: the redirect branch was taken. *)
C8_Witness == authPc = "done" /\ session = NoUser /\ route = "/auth"

(* An action has completed: some row's status differs from the start.   *)
Acted == db # InitialDb

(* C9 as stated: once an action has completed, an order present in both  *)
(* lists never shows different statuses in them.                         *)
C9_NeverDiverge ==
  Acted => \A b \in Records("borrowed") : \A l \in Records("lent") :
             (b.id = l.id /\ b.type = l.type) => b.status = l.status

(* C9 amended: when both lists hold the result of a fetch begun after    *)
(* the latest backend change, an order present in both shows the same    *)
(* status in both.                                                       *)
C9_AgreeOnceBothRefetched ==
  (fresh["borrowed"].held /\ fresh["lent"].held)
    => \A b \in Records("borrowed") : \A l \in Records("lent") :
         (b.id = l.id /\ b.type = l.type) => b.status = l.status

(* C9 witness: after an action both lists were re-fetched and show the   *)
(* shared order.                                                         *)
C9_Witness ==
  /\ Acted
  /\ fresh["borrowed"].held /\ fresh["lent"].held
  /\ \E b \in Records("borrowed") : \E l \in Records("lent") :
       b.id = l.id /\ b.type = l.type /\ b.status = "accepted"

(* C10: each getStatusColor gives a status outside its listed cases the  *)
(* value it gives 'pending'.                                             *)
C10_UnknownLikePending ==
  /\ (rendered.done /\ card.variant = "first" /\ card.status \notin ListedCases)
       => rendered.badge = getStatusColor("pending")
  /\ (rendered.done /\ card.variant = "second" /\ card.status \notin ListedCasesSecond)
       => rendered.badge = getStatusColorSecond("pending")

(* C10 witness: a card with a status outside the enum was rendered. *)
C10_Witness == rendered.done /\ card.status \in UnknownStatuses /\ card.variant = "first"

(* C11: in each view the empty-state card with its link is rendered     *)
(* exactly when the view's result has no record (not loaded, or empty),  *)
(* the grid exactly when it has at least one, and never both.            *)
C11_EmptyStateOrGrid ==
  \A v \in Views :
    LET n == IF data[v].loaded THEN Len(data[v].rows) ELSE 0
    IN  /\ ({"emptyCard", "ctaLink"} \subseteq tabs[v]) <=> (n = 0)
        /\ ("emptyCard" \in tabs[v]) <=> ("ctaLink" \in tabs[v])
        /\ ("grid" \in tabs[v]) <=> (n >= 1)
        /\ ~("grid" \in tabs[v] /\ "emptyCard" \in tabs[v])

(* C11 witness: a loader degraded to the empty sequence and its tab      *)
(* shows the empty-state card, while the other tab shows a grid.         *)
C11_Witness ==
  \E v \in Views : \E w \in Views :
    /\ data[v].loaded /\ Len(data[v].rows) = 0 /\ Failed(query[v].items)
    /\ "emptyCard" \in tabs[v]
    /\ "grid" \in tabs[w]

(* C12: the backend's statuses change only in a step of the accept/deny  *)
(* or the payment collaborator, never in a step of the page (auth check, *)
(* loaders, rendering), and in such a step the page only restarts        *)
(* loaders: its user, route, lists and tabs stay as they were.           *)
C12_PageNeverWrites ==
  [][(db' # db) => /\ lastStep' \in {"accept", "deny", "pay"}
                   /\ user' = user /\ route' = route
                   /\ data' = data /\ tabs' = tabs
                   /\ \A v \in Views : query'[v] \in {query[v], Fetching}]_vars

(* C12 witness: an accept has just changed a row and the page is         *)
(* re-fetching.                                                          *)
C12_Witness == lastStep = "accept" /\ db # InitialDb /\ query["lent"] = Fetching

(* C13: the first OrderCard never raises on missing related data: a     *)
(* null listing or title renders 'Untitled', a null counterparty or name *)
(* renders 'Unknown', and a null listing, null images or empty images    *)
(* renders no image.                                                     *)
C13_MissingDataDefaults ==
  (rendered.done /\ card.variant = "first")
    => /\ ~rendered.threw
       /\ (card.listing = Null \/ OptField(card.listing, "title") = Null)
            => rendered.title = Str("Untitled")
       /\ (card.otherUser = Null \/ OptField(card.otherUser, "name") = Null)
            => rendered.party.name = Str("Unknown")
       /\ (\/ card.listing = Null
           \/ OptField(card.listing, "images") = Null
           \/ OptField(card.listing, "images") = Arr(<<>>))
            => rendered.images = {}

(* C13 witness: a card was rendered for an order with neither listing    *)
(* nor counterparty.                                                     *)
C13_Witness ==
  /\ rendered.done /\ card.variant = "first"
  /\ card.listing = Null /\ card.otherUser = Null
  /\ rendered.title = Str("Untitled") /\ rendered.images = {}

(* The merged record carries every value of the returned record, the    *)
(* type column aside.                                                    *)
SameRecord(merged, raw) ==
  \A k \in (DOMAIN raw) \ {"type"} : k \in DOMAIN merged /\ merged[k] = raw[k]

(* C14: when both sub-queries of an execution succeeded, the result is   *)
(* the item records in the order returned followed by the service       *)
(* records in the order returned: nothing dropped, duplicated or moved.  *)
C14_ItemsThenServices ==
  \A v \in Views :
    (query[v].phase = "idle" /\ query[v].items.kind = "ok" /\ query[v].services.kind = "ok")
      => LET it == query[v].items.data
             sv == query[v].services.data
             rows == data[v].rows
         IN  /\ data[v].loaded
             /\ Len(rows) = Len(it) + Len(sv)
             /\ \A i \in 1..Len(it) : SameRecord(rows[i], it[i])
             /\ \A j \in 1..Len(sv) : SameRecord(rows[Len(it) + j], sv[j])

(* C14 witness: a successful execution merged two item records and a    *)
(* newer service record, which stays behind the older items.             *)
C14_Witness ==
  \E v \in Views :
    /\ query[v].phase = "idle" /\ query[v].items.kind = "ok" /\ query[v].services.kind = "ok"
    /\ Len(query[v].items.data) >= 2 /\ Len(query[v].services.data) >= 1
    /\ \E i \in DOMAIN data[v].rows : \E j \in DOMAIN data[v].rows :
         i < j /\ data[v].rows[i].created_at < data[v].rows[j].created_at

(* C15: every record of a loader's result carries the counterparty     *)
(* under otherUser (borrowed: the joined seller of an item order, the    *)
(* joined provider of a service order; lent: the joined buyer) and the   *)
(* joined listing under listing (listings for an item order, services    *)
(* for a service order).                                                 *)
C15_OtherUserAndListing ==
  \A v \in Views : \A o \in Records(v) :
    LET item == o.srcTable = "orders"
        joined == IF v = "lent" THEN Get(o, "buyer")
                  ELSE IF item THEN Get(o, "seller") ELSE Get(o, "provider")
        partyId == IF v = "lent" THEN o.buyer_id
                   ELSE IF item THEN Get(o, "seller_id") ELSE Get(o, "provider_id")
    IN  /\ Get(o, "otherUser") = joined
        /\ joined = ProfileOf(partyId)
        /\ Get(o, "listing") = (IF item THEN Get(o, "listings") ELSE Get(o, "services"))
        /\ Get(o, "listing") # Undefined

(* C15 witness: the borrowed list holds a service order with its         *)
(* provider and the lent list an order with its buyer, both other users. *)
C15_Witness ==
  /\ \E o \in Records("borrowed") :
       o.srcTable = "service_orders" /\ o.otherUser = ProfileOf("u2") /\ o.provider_id = "u2"
  /\ \E l \in Records("lent") : l.otherUser = ProfileOf("u2") /\ l.buyer_id = "u2"

Other(v) == IF v = "borrowed" THEN "lent" ELSE "borrowed"

(* C16: a step of one loader (its start, a sub-query settling or         *)
(* failing, its result being stored) leaves the other loader's           *)
(* execution, result and tab as they were: a failure empties the         *)
(* failing loader's list only.                                           *)
C16_LoadersIndependent ==
  [][(lastStep' = "other")
       => \A v \in Views :
            (query'[v] # query[v])
              => /\ query'[Other(v)] = query[Other(v)]
                 /\ data'[Other(v)] = data[Other(v)]
                 /\ tabs'[Other(v)] = tabs[Other(v)]]_vars

(* C16 witness: the borrowed loader failed and is empty while the lent   *)
(* list holds the records the lent loader produced.                      *)
C16_Witness ==
  /\ query["borrowed"].phase = "idle"
  /\ Failed(query["borrowed"].items) \/ Failed(query["borrowed"].services)
  /\ data["borrowed"] = Data(<<>>)
  /\ query["lent"].phase = "idle"
  /\ query["lent"].items.kind = "ok" /\ query["lent"].services.kind = "ok"
  /\ Len(data["lent"].rows) > 0

====
